---- MODULE Spec2Model ----
(***************************************************************************)
(* DevDash MCP server (tools/mcp/devdash_mcp/server.py): the tool catalog  *)
(* returned by list_tools and the dispatcher call_tool, which turns one    *)
(* tool invocation into at most one HTTP GET against the DevTools API and  *)
(* decodes the answer into a list of content blocks.                       *)
(*                                                                         *)
(* Strings are TLA+ strings, response bodies are sequences of byte values, *)
(* and the three conversions of the code (bytes -> text, JSON text <->     *)
(* value, bytes -> base64) are computed character by character.            *)
(***************************************************************************)
EXTENDS Integers, Sequences, FiniteSets, TLC

(***************************************************************************)
(* Characters and bytes                                                    *)
(***************************************************************************)

\* The printable ASCII characters in code-point order: 32..95 and 97..126
\* (code point 96, the grave accent, cannot be written in a TLA+ string).
PrintableLow ==
    " !\"#$%&'()*+,-./0123456789:;<=>?@ABCDEFGHIJKLMNOPQRSTUVWXYZ[\\]^_"

PrintableHigh == "abcdefghijklmnopqrstuvwxyz{|}~"

Chr(s, i) == SubSeq(s, i, i)

\* chr(b) for the bytes a text decoder maps to themselves; any other byte
\* stands for what errors="replace" puts in its place.
CharOf(b) ==
    IF b >= 32 /\ b <= 95 THEN Chr(PrintableLow, b - 31)
    ELSE IF b >= 97 /\ b <= 126 THEN Chr(PrintableHigh, b - 96)
    ELSE IF b = 10 THEN "\n"
    ELSE IF b = 13 THEN "\r"
    ELSE IF b = 9 THEN "\t"
    ELSE "?"

\* ord(c) of a one-character string.
Ord(c) ==
    IF c = "\n" THEN 10
    ELSE IF c = "\r" THEN 13
    ELSE IF c = "\t" THEN 9
    ELSE IF \E i \in 1..Len(PrintableLow) : Chr(PrintableLow, i) = c
    THEN 31 + (CHOOSE i \in 1..Len(PrintableLow) : Chr(PrintableLow, i) = c)
    ELSE 96 + (CHOOSE i \in 1..Len(PrintableHigh) : Chr(PrintableHigh, i) = c)

RECURSIVE Encode(_)
\* str.encode(): the bytes of an ASCII string.
Encode(s) ==
    IF Len(s) = 0 THEN <<>>
    ELSE <<Ord(Chr(s, 1))>> \o Encode(SubSeq(s, 2, Len(s)))

RECURSIVE DecodeText(_)
\* Response.text: the body decoded with undecodable bytes replaced.
DecodeText(bytes) ==
    IF Len(bytes) = 0 THEN ""
    ELSE CharOf(Head(bytes)) \o DecodeText(Tail(bytes))

IsAscii(bytes) == \A k \in 1..Len(bytes) : bytes[k] < 128

\* s contains sub as a substring (Python's `sub in s`).
Contains(s, sub) ==
    \E k \in 1..(Len(s) - Len(sub) + 1) : SubSeq(s, k, k + Len(sub) - 1) = sub

(***************************************************************************)
(* base64.b64encode / b64decode                                            *)
(***************************************************************************)

B64Alphabet ==
    "ABCDEFGHIJKLMNOPQRSTUVWXYZabcdefghijklmnopqrstuvwxyz0123456789+/"

B64Char(n) == Chr(B64Alphabet, n + 1)

B64Index(c) == (CHOOSE i \in 1..64 : Chr(B64Alphabet, i) = c) - 1

RECURSIVE b64encode(_)
b64encode(bytes) ==
    IF Len(bytes) = 0 THEN ""
    ELSE IF Len(bytes) = 1 THEN
        B64Char(bytes[1] \div 4) \o B64Char((bytes[1] % 4) * 16) \o "=="
    ELSE IF Len(bytes) = 2 THEN
        B64Char(bytes[1] \div 4)
            \o B64Char((bytes[1] % 4) * 16 + bytes[2] \div 16)
            \o B64Char((bytes[2] % 16) * 4) \o "="
    ELSE
        B64Char(bytes[1] \div 4)
            \o B64Char((bytes[1] % 4) * 16 + bytes[2] \div 16)
            \o B64Char((bytes[2] % 16) * 4 + bytes[3] \div 64)
            \o B64Char(bytes[3] % 64)
            \o b64encode(SubSeq(bytes, 4, Len(bytes)))

RECURSIVE b64decode(_)
b64decode(s) ==
    IF Len(s) < 4 THEN <<>>
    ELSE
        LET a == B64Index(Chr(s, 1))
            b == B64Index(Chr(s, 2))
            first == a * 4 + b \div 16
        IN  IF Chr(s, 3) = "=" THEN <<first>>
            ELSE
                LET c == B64Index(Chr(s, 3))
                    second == (b % 16) * 16 + c \div 4
                IN  IF Chr(s, 4) = "=" THEN <<first, second>>
                    ELSE <<first, second, (c % 4) * 64 + B64Index(Chr(s, 4))>>
                             \o b64decode(SubSeq(s, 5, Len(s)))

(***************************************************************************)
(* JSON: Response.json() (json.loads) and json.dumps(data, indent=2)       *)
(*                                                                         *)
(* A JSON value is one of [null |-> TRUE], [bool |-> b], [num |-> n],      *)
(* [str |-> s], [arr |-> <<v, ...>>], [obj |-> <<<<k, v>>, ...>>] (a dict  *)
(* in insertion order).  Numbers are integers and the string escapes are   *)
(* \" \\ and \n: no body of the model uses fractions, exponents, NaN or    *)
(* another escape.                                                         *)
(***************************************************************************)

Digits == "0123456789"

IsDigit(c) == \E d \in 1..10 : Chr(Digits, d) = c

DigitVal(c) == (CHOOSE d \in 1..10 : Chr(Digits, d) = c) - 1

IsWs(c) == c \in {" ", "\n", "\t", "\r"}

RECURSIVE SkipWs(_, _)
\* The index of the first non-whitespace character at or after p.
SkipWs(s, p) ==
    IF p <= Len(s) /\ IsWs(Chr(s, p)) THEN SkipWs(s, p + 1) ELSE p

Parsed(v, e) == [ok |-> TRUE, val |-> v, end |-> e]

Failed(m, p) == [ok |-> FALSE, msg |-> m, at |-> p]

RECURSIVE ScanDigits(_, _, _)
\* The digits from p on, as <<value, index after them>>.
ScanDigits(s, p, acc) ==
    IF p <= Len(s) /\ IsDigit(Chr(s, p))
    THEN ScanDigits(s, p + 1, acc * 10 + DigitVal(Chr(s, p)))
    ELSE <<acc, p>>

\* The integer part of the number pattern: -?(0|[1-9][0-9]*).
ScanNumber(s, p) ==
    LET q == IF Chr(s, p) = "-" THEN p + 1 ELSE p
        sign == IF q = p THEN 1 ELSE -1
    IN  IF q > Len(s) \/ ~IsDigit(Chr(s, q)) THEN Failed("Expecting value", p)
        ELSE IF Chr(s, q) = "0" THEN Parsed([num |-> 0], q + 1)
        ELSE LET d == ScanDigits(s, q, 0)
             IN  Parsed([num |-> sign * d[1]], d[2])

RECURSIVE ScanString(_, _, _, _)
\* The string whose opening quote is at begin, read from p on.
ScanString(s, begin, p, acc) ==
    IF p > Len(s) THEN Failed("Unterminated string starting at", begin)
    ELSE LET c == Chr(s, p)
         IN  IF c = "\"" THEN Parsed(acc, p + 1)
             ELSE IF c = "\n" THEN Failed("Invalid control character at", p)
             ELSE IF c = "\\" THEN
                 IF p + 1 > Len(s)
                 THEN Failed("Unterminated string starting at", begin)
                 ELSE LET e == Chr(s, p + 1)
                      IN  IF e = "\"" THEN ScanString(s, begin, p + 2, acc \o "\"")
                          ELSE IF e = "\\" THEN ScanString(s, begin, p + 2, acc \o "\\")
                          ELSE IF e = "n" THEN ScanString(s, begin, p + 2, acc \o "\n")
                          ELSE Failed("Invalid \\escape: " \o e, p)
             ELSE ScanString(s, begin, p + 1, acc \o c)

RECURSIVE DictSet(_, _, _)
\* d[k] = v on a dict kept as a sequence of pairs in insertion order.
DictSet(d, k, v) ==
    IF Len(d) = 0 THEN << <<k, v>> >>
    ELSE IF Head(d)[1] = k THEN << <<k, v>> >> \o Tail(d)
    ELSE <<Head(d)>> \o DictSet(Tail(d), k, v)

RECURSIVE ScanOnce(_, _), ScanArray(_, _, _), ScanObject(_, _, _)
\* scan_once: the value that starts at index p.
ScanOnce(s, p) ==
    IF p > Len(s) THEN Failed("Expecting value", p)
    ELSE LET c == Chr(s, p)
         IN  IF c = "\"" THEN
                 LET r == ScanString(s, p, p + 1, "")
                 IN  IF r.ok THEN Parsed([str |-> r.val], r.end) ELSE r
             ELSE IF c = "{" THEN
                 LET q == SkipWs(s, p + 1)
                 IN  IF q <= Len(s) /\ Chr(s, q) = "}" THEN Parsed([obj |-> <<>>], q + 1)
                     ELSE IF q > Len(s) \/ Chr(s, q) # "\""
                     THEN Failed("Expecting property name enclosed in double quotes", q)
                     ELSE ScanObject(s, q, <<>>)
             ELSE IF c = "[" THEN
                 LET q == SkipWs(s, p + 1)
                 IN  IF q <= Len(s) /\ Chr(s, q) = "]" THEN Parsed([arr |-> <<>>], q + 1)
                     ELSE ScanArray(s, q, <<>>)
             ELSE IF c = "n" /\ SubSeq(s, p, p + 3) = "null"
             THEN Parsed([null |-> TRUE], p + 4)
             ELSE IF c = "t" /\ SubSeq(s, p, p + 3) = "true"
             THEN Parsed([bool |-> TRUE], p + 4)
             ELSE IF c = "f" /\ SubSeq(s, p, p + 4) = "false"
             THEN Parsed([bool |-> FALSE], p + 5)
             ELSE IF c = "-" \/ IsDigit(c) THEN ScanNumber(s, p)
             ELSE Failed("Expecting value", p)

\* JSONArray: the elements from index p on (p is at the next element).
ScanArray(s, p, acc) ==
    LET r == ScanOnce(s, p)
    IN  IF ~r.ok THEN r
        ELSE LET q == SkipWs(s, r.end)
                 items == Append(acc, r.val)
             IN  IF q <= Len(s) /\ Chr(s, q) = "]" THEN Parsed([arr |-> items], q + 1)
                 ELSE IF q > Len(s) \/ Chr(s, q) # ","
                 THEN Failed("Expecting ',' delimiter", q)
                 ELSE ScanArray(s, SkipWs(s, q + 1), items)

\* JSONObject: the members from index p on (p is at a key's opening quote).
ScanObject(s, p, acc) ==
    LET k == ScanString(s, p, p + 1, "")
    IN  IF ~k.ok THEN k
        ELSE LET c == SkipWs(s, k.end)
             IN  IF c > Len(s) \/ Chr(s, c) # ":"
                 THEN Failed("Expecting ':' delimiter", c)
                 ELSE LET r == ScanOnce(s, SkipWs(s, c + 1))
                      IN  IF ~r.ok THEN r
                          ELSE LET q == SkipWs(s, r.end)
                                   members == DictSet(acc, k.val, r.val)
                               IN  IF q <= Len(s) /\ Chr(s, q) = "}"
                                   THEN Parsed([obj |-> members], q + 1)
                                   ELSE IF q > Len(s) \/ Chr(s, q) # ","
                                   THEN Failed("Expecting ',' delimiter", q)
                                   ELSE LET n == SkipWs(s, q + 1)
                                        IN  IF n > Len(s) \/ Chr(s, n) # "\""
                                            THEN Failed("Expecting property name enclosed in double quotes", n)
                                            ELSE ScanObject(s, n, members)

\* json.loads(s): one value, whitespace around it, and nothing else.
loads(s) ==
    LET r == ScanOnce(s, SkipWs(s, 1))
    IN  IF ~r.ok THEN r
        ELSE LET e == SkipWs(s, r.end)
             IN  IF e <= Len(s) THEN Failed("Extra data", e) ELSE r

RECURSIVE CountNewlines(_, _)
CountNewlines(s, n) ==
    IF n = 0 THEN 0
    ELSE CountNewlines(s, n - 1) + (IF Chr(s, n) = "\n" THEN 1 ELSE 0)

RECURSIVE LastNewline(_, _)
\* The index of the last newline among the first n characters, or 0.
LastNewline(s, n) ==
    IF n = 0 THEN 0
    ELSE IF Chr(s, n) = "\n" THEN n ELSE LastNewline(s, n - 1)

\* str(JSONDecodeError(msg, doc, pos)), pos being the 0-based offset at - 1.
JSONDecodeErrorStr(f, doc) ==
    f.msg \o ": line " \o ToString(CountNewlines(doc, f.at - 1) + 1)
          \o " column " \o ToString(f.at - LastNewline(doc, f.at - 1))
          \o " (char " \o ToString(f.at - 1) \o ")"

RECURSIVE EscapeString(_)
\* The body of a JSON string literal (ensure_ascii escaping of ASCII text).
EscapeString(s) ==
    IF Len(s) = 0 THEN ""
    ELSE LET c == Chr(s, 1)
             e == IF c = "\"" THEN "\\\""
                  ELSE IF c = "\\" THEN "\\\\"
                  ELSE IF c = "\n" THEN "\\n"
                  ELSE c
         IN  e \o EscapeString(SubSeq(s, 2, Len(s)))

RECURSIVE Spaces(_)
Spaces(n) == IF n = 0 THEN "" ELSE " " \o Spaces(n - 1)

\* The newline and indentation that precede an item at nesting depth level.
NewlineIndent(indent, level) == "\n" \o Spaces(indent * level)

RECURSIVE dumps(_, _, _), DumpItems(_, _, _), DumpMembers(_, _, _)
\* json.dumps(v, indent=indent) for a value at nesting depth level.
dumps(v, indent, level) ==
    IF "null" \in DOMAIN v THEN "null"
    ELSE IF "bool" \in DOMAIN v THEN (IF v.bool THEN "true" ELSE "false")
    ELSE IF "num" \in DOMAIN v THEN ToString(v.num)
    ELSE IF "str" \in DOMAIN v THEN "\"" \o EscapeString(v.str) \o "\""
    ELSE IF "arr" \in DOMAIN v THEN
        IF Len(v.arr) = 0 THEN "[]"
        ELSE "[" \o NewlineIndent(indent, level + 1)
                 \o DumpItems(v.arr, indent, level + 1)
                 \o NewlineIndent(indent, level) \o "]"
    ELSE
        IF Len(v.obj) = 0 THEN "{}"
        ELSE "{" \o NewlineIndent(indent, level + 1)
                 \o DumpMembers(v.obj, indent, level + 1)
                 \o NewlineIndent(indent, level) \o "}"

DumpItems(items, indent, level) ==
    dumps(Head(items), indent, level)
        \o (IF Len(items) = 1 THEN ""
            ELSE "," \o NewlineIndent(indent, level)
                     \o DumpItems(Tail(items), indent, level))

DumpMembers(members, indent, level) ==
    "\"" \o EscapeString(Head(members)[1]) \o "\": "
        \o dumps(Head(members)[2], indent, level)
        \o (IF Len(members) = 1 THEN ""
            ELSE "," \o NewlineIndent(indent, level)
                     \o DumpMembers(Tail(members), indent, level))

(***************************************************************************)
(* Python values, content blocks, responses and exceptions                 *)
(***************************************************************************)

\* A Python value of the argument mapping is [int |-> n] or [str |-> s];
\* None is what dict.get returns for a missing key.
None == [none |-> TRUE]

IsInt(v) == "int" \in DOMAIN v

\* bool(v)
Truthy(v) ==
    IF "none" \in DOMAIN v THEN FALSE
    ELSE IF IsInt(v) THEN v.int # 0
    ELSE v.str # ""

\* str(v), as the HTTP client writes a query parameter's value.
Str(v) == IF IsInt(v) THEN ToString(v.int) ELSE v.str

\* arguments.get(key)
Get(arguments, key) == IF key \in DOMAIN arguments THEN arguments[key] ELSE None

TextContent(text) == [type |-> "text", text |-> text]

ImageContent(data, mimeType) == [type |-> "image", data |-> data, mimeType |-> mimeType]

Exc(cls, str) == [cls |-> cls, str |-> str]

\* The classes an exception of class cls is an instance of.
Bases(cls) ==
    CASE cls = "ConnectError" ->
            {"ConnectError", "NetworkError", "TransportError", "RequestError", "HTTPError", "Exception"}
      [] cls = "ReadTimeout" ->
            {"ReadTimeout", "TimeoutException", "TransportError", "RequestError", "HTTPError", "Exception"}
      [] cls = "ConnectTimeout" ->
            {"ConnectTimeout", "TimeoutException", "TransportError", "RequestError", "HTTPError", "Exception"}
      [] cls = "HTTPStatusError" -> {"HTTPStatusError", "HTTPError", "Exception"}
      [] cls = "JSONDecodeError" -> {"JSONDecodeError", "ValueError", "Exception"}
      [] cls = "UnicodeDecodeError" -> {"UnicodeDecodeError", "UnicodeError", "ValueError", "Exception"}
      [] cls = "TypeError" -> {"TypeError", "Exception"}
      [] OTHER -> {cls}

IsInstance(e, cls) == cls \in Bases(e.cls)

\* What a step of the handler ends in: a returned list or a raised exception.
Returned(blocks) == [kind |-> "return", value |-> blocks]

Raised(e) == [kind |-> "raise", exc |-> e]

\* What the awaited client.get gives back: a response or a transport fault.
Response(status_code, content) ==
    [kind |-> "response", status_code |-> status_code, content |-> content]

Fault(e) == [kind |-> "fault", exc |-> e]

NoReply == [kind |-> "none"]

is_success(response) == response.status_code >= 200 /\ response.status_code <= 299

\* The exception raise_for_status raises (its message without the reason
\* phrase and the URL, which no handler reads).
HTTPStatusError(response) ==
    [cls |-> "HTTPStatusError",
     str |-> "HTTP status '" \o ToString(response.status_code) \o "'",
     response |-> response]

HexDigits == "0123456789abcdef"

Hex2(b) == Chr(HexDigits, (b \div 16) + 1) \o Chr(HexDigits, (b % 16) + 1)

\* Response.json(): the body decoded as UTF-8 and parsed.  Every byte above
\* 127 of the model's bodies is in 0x80..0xBF, an invalid start byte.
response_json(response) ==
    IF ~IsAscii(response.content) THEN
        LET k == CHOOSE k \in 1..Len(response.content) :
                    /\ response.content[k] >= 128
                    /\ \A j \in 1..(k - 1) : response.content[j] < 128
        IN  Raised(Exc("UnicodeDecodeError",
                "'utf-8' codec can't decode byte 0x" \o Hex2(response.content[k])
                    \o " in position " \o ToString(k - 1) \o ": invalid start byte"))
    ELSE
        LET doc == DecodeText(response.content)
            r == loads(doc)
        IN  IF r.ok THEN Returned(r.val)
            ELSE Raised(Exc("JSONDecodeError", JSONDecodeErrorStr(r, doc)))

(***************************************************************************)
(* The program's constants and catalog                                     *)
(***************************************************************************)

DEVTOOLS_BASE_URL == "http://127.0.0.1:18080"

\* The cap of min(arguments["count"], 1000).
MaxLogCount == 1000

\* json.dumps(data, indent=2)
JsonIndent == 2

NoArgumentsSchema == [properties |-> <<>>, required |-> <<>>]

GetStateTool == [name |-> "devdash_get_state", inputSchema |-> NoArgumentsSchema]

GetWarningsTool == [name |-> "devdash_get_warnings", inputSchema |-> NoArgumentsSchema]

ScreenshotTool ==
    [name |-> "devdash_screenshot",
     inputSchema |-> [properties |-> [window |-> [type |-> "string"]],
                      required |-> <<"window">>]]

ListWindowsTool == [name |-> "devdash_list_windows", inputSchema |-> NoArgumentsSchema]

GetLogsTool ==
    [name |-> "devdash_get_logs",
     inputSchema |->
        [properties |->
            [count |-> [type |-> "integer", default |-> [int |-> 100]],
             level |-> [type |-> "string", default |-> [str |-> "info"]],
             category |-> [type |-> "string", default |-> [str |-> ""]]],
         required |-> <<>>]]

\* Mutant: a tool added to the catalog without a branch in call_tool.
list_tools_undispatched ==
    <<GetStateTool, GetWarningsTool, ScreenshotTool, ListWindowsTool, GetLogsTool,
      [name |-> "devdash_get_config", inputSchema |-> NoArgumentsSchema]>>

\* list_tools(): name and inputSchema of every tool, in declaration order.
list_tools ==
    <<GetStateTool, GetWarningsTool, ScreenshotTool, ListWindowsTool, GetLogsTool>>

CatalogNames == {list_tools[k].name : k \in 1..Len(list_tools)}

(***************************************************************************)
(* Bounds and inputs                                                       *)
(***************************************************************************)

\* The number of invocations the host may have in flight at once.
NumCalls == 2

Calls == 1..NumCalls

\* Integer count arguments: below, at and above the cap.
CountArgs == {-5, 0, 1, 100, 999, 1000, 1001, 5000}

\* {} and every one-key mapping key -> v.
Optional(key, values) == {<<>>} \cup {key :> v : v \in values}

LogArguments ==
    {c @@ l @@ g :
        c \in Optional("count", {[int |-> n] : n \in CountArgs} \cup {[str |-> "abc"]}),
        l \in Optional("level", {[str |-> "debug"]}),
        g \in Optional("category", {[str |-> ""], [str |-> "devdash.broker"]})}

WindowArguments == Optional("window", {[str |-> ""], [str |-> "cluster"], [str |-> "headunit"]})

ArgumentMaps == LogArguments \cup WindowArguments

ToolNames == CatalogNames \cup {"unknown_tool_xyz"}

Invocations == [name : ToolNames, arguments : ArgumentMaps]

NoCall == [absent |-> TRUE]

IsCall(c) == "absent" \notin DOMAIN c

\* Response bodies: JSON documents, malformed documents, plain text, PNG bytes.
JsonBodies ==
    {Encode("{\"rpm\": 3000}"),
     Encode("[]"),
     Encode("[\"cluster\", \"headunit\"]"),
     Encode("{\"warnings\": [{\"id\": 1, \"critical\": true}], \"note\": null}"),
     Encode(" {\"a\": -7, \"a\": \"x\\\"y\\\\\"}\r\n")}

TextBodies ==
    {Encode(""), Encode("not found"), Encode("{\"rpm\":"), Encode("[1, 2] x"),
     Encode("Cannot connect")}

ImageBodies ==
    {<<137, 80, 78>>, <<137, 80, 78, 71>>, <<137, 80, 78, 71, 13>>}

Bodies == JsonBodies \cup TextBodies \cup ImageBodies

\* Everything the backend may do with a request.
Replies ==
    {Response(200, b) : b \in Bodies}
        \cup {Response(204, <<>>)}
        \cup {Response(st, b) : st \in {301, 404, 500}, b \in TextBodies}
        \cup {Fault(Exc("ConnectError", "All connection attempts failed")),
              Fault(Exc("ReadTimeout", "")),
              Fault(Exc("ConnectTimeout", ""))}

\* The smaller workload of the concurrent runs.
ConcurrentInvocations ==
    {[name |-> "devdash_get_state", arguments |-> <<>>],
     [name |-> "devdash_get_warnings", arguments |-> <<>>],
     [name |-> "devdash_list_windows", arguments |-> <<>>],
     [name |-> "devdash_get_logs", arguments |-> ("count" :> [int |-> 5000])],
     [name |-> "devdash_screenshot", arguments |-> ("window" :> [str |-> "cluster"])],
     [name |-> "unknown_tool_xyz", arguments |-> <<>>]}

ConcurrentReplies ==
    {Response(200, Encode("{\"rpm\": 3000}")),
     Response(404, Encode("not found")),
     Fault(Exc("ConnectError", "All connection attempts failed"))}

(***************************************************************************)
(* The dispatcher: call_tool                                               *)
(***************************************************************************)

VARIABLES
    calls,      \* calls[i]: the invocation (name, arguments) the host delivers, or NoCall
    backend,    \* the backend of this run: "any" may reply with each of Replies,
                \* "few" with each of ConcurrentReplies
    pc,         \* pc[i]: "absent", "pending", "awaiting" (at client.get), "returned", "raised"
    locals,     \* locals[f]: the local variables of coroutine frame f
    sent,       \* the HTTP requests issued so far, in order
    reply,      \* reply[i]: what the awaited client.get of call i gave back
    result      \* result[i]: the list call i returned

vars == <<calls, backend, pc, locals, sent, reply, result>>

\* What the backend of this run may do with a request.
BackendReplies == IF backend = "any" THEN Replies ELSE ConcurrentReplies

\* Mutant: the locals kept in one module-level slot that every call uses.
FrameShared(i) == 1

\* Every invocation of call_tool runs in a coroutine frame of its own.
Frame(i) == i

ConnectErrorText ==
    "Error: Cannot connect to DevDash. Make sure DevDash is running with DevTools server enabled."

\* Mutant: the status alone, the body dropped.
HTTPStatusErrorTextNoBody(e) == "Error: HTTP " \o ToString(e.response.status_code)

HTTPStatusErrorText(e) ==
    "Error: HTTP " \o ToString(e.response.status_code) \o " - "
        \o DecodeText(e.response.content)

ExceptionText(e) == "Error: " \o e.str

\* Mutant: the catch-all clause left out.
ExceptClausesNoCatchAll == <<"ConnectError", "HTTPStatusError">>

\* Mutant: the catch-all clause written first, shadowing the other two.
ExceptClausesCatchAllFirst == <<"Exception", "ConnectError", "HTTPStatusError">>

\* The except clauses of call_tool, in order.
ExceptClauses == <<"ConnectError", "HTTPStatusError", "Exception">>

HandlerText(cls, e) ==
    CASE cls = "ConnectError" -> ConnectErrorText
      [] cls = "HTTPStatusError" -> HTTPStatusErrorText(e)
      [] OTHER -> ExceptionText(e)

\* try/except: the first clause the exception is an instance of handles it;
\* with no such clause the exception leaves call_tool.
Except(outcome) ==
    IF outcome.kind = "return" THEN outcome
    ELSE LET matching == {k \in 1..Len(ExceptClauses) :
                            IsInstance(outcome.exc, ExceptClauses[k])}
         IN  IF matching = {} THEN outcome
             ELSE LET first == CHOOSE k \in matching : \A j \in matching : k <= j
                  IN  Returned(<<TextContent(HandlerText(ExceptClauses[first], outcome.exc))>>)

\* call_tool ends for call i: it returns a list or lets an exception out.
Finish(i, outcome) ==
    LET final == Except(outcome)
    IN  IF final.kind = "return"
        THEN /\ result' = [result EXCEPT ![i] = final.value]
             /\ pc' = [pc EXCEPT ![i] = "returned"]
        ELSE /\ result' = result
             /\ pc' = [pc EXCEPT ![i] = "raised"]

\* The call binds its parameters in its frame.
Enter(i) ==
    locals' = [locals EXCEPT ![Frame(i)] =
                  [name |-> calls[i].name, arguments |-> calls[i].arguments]]

\* The query parameters as written on the wire: each value through str().
QueryParams(params) == [k \in 1..Len(params) |-> <<params[k][1], Str(params[k][2])>>]

\* Mutant: a client that sends the request again after the first attempt.
client_get_retrying(i, url, params) ==
    /\ sent' = sent \o << [call |-> i, method |-> "GET", url |-> url,
                            params |-> QueryParams(params)],
                          [call |-> i, method |-> "GET", url |-> url,
                            params |-> QueryParams(params)] >>
    /\ pc' = [pc EXCEPT ![i] = "awaiting"]
    /\ UNCHANGED <<calls, backend, reply, result>>

\* await client.get(url, params=params): one GET goes out and the call suspends.
client_get(i, url, params) ==
    /\ sent' = Append(sent, [call |-> i, method |-> "GET", url |-> url,
                             params |-> QueryParams(params)])
    /\ pc' = [pc EXCEPT ![i] = "awaiting"]
    /\ UNCHANGED <<calls, backend, reply, result>>

\* A return (or a raise) before any request.
ReturnEarly(i, outcome) ==
    /\ Finish(i, outcome)
    /\ UNCHANGED <<calls, backend, sent, reply>>

GetState(i) ==
    /\ pc[i] = "pending"
    /\ calls[i].name = "devdash_get_state"
    /\ Enter(i)
    /\ client_get(i, DEVTOOLS_BASE_URL \o "/api/state", <<>>)

GetWarnings(i) ==
    /\ pc[i] = "pending"
    /\ calls[i].name = "devdash_get_warnings"
    /\ Enter(i)
    /\ client_get(i, DEVTOOLS_BASE_URL \o "/api/warnings", <<>>)

ListWindows(i) ==
    /\ pc[i] = "pending"
    /\ calls[i].name = "devdash_list_windows"
    /\ Enter(i)
    /\ client_get(i, DEVTOOLS_BASE_URL \o "/api/windows", <<>>)

\* Mutant: the count passed on as given.
ClampCountMissing(count) == count

\* min(count, 1000) on an integer count.
ClampCount(count) == IF count.int < MaxLogCount THEN count ELSE [int |-> MaxLogCount]

\* Mutant: absent arguments filled in with the defaults the schema declares.
GetLogsParamsWithDefaults(arguments) ==
    LET defaults == GetLogsTool.inputSchema.properties
        full == [k \in {"count", "level", "category"} |->
                    IF k \in DOMAIN arguments THEN arguments[k] ELSE defaults[k].default]
    IN  IF ~IsInt(full["count"])
        THEN Raised(Exc("TypeError",
                "'<' not supported between instances of 'int' and 'str'"))
        ELSE Returned(
                << <<"count", IF full["count"].int < MaxLogCount THEN full["count"]
                              ELSE [int |-> MaxLogCount]>>,
                   <<"level", full["level"]>> >>
             \o (IF Truthy(full["category"])
                 THEN << <<"category", full["category"]>> >> ELSE <<>>))

\* The params dict of the get_logs branch, in insertion order, or the
\* TypeError min() raises on a count that is no number.
GetLogsParams(arguments) ==
    IF "count" \in DOMAIN arguments /\ ~IsInt(arguments["count"])
    THEN Raised(Exc("TypeError",
            "'<' not supported between instances of 'int' and 'str'"))
    ELSE Returned(
            (IF "count" \in DOMAIN arguments
             THEN << <<"count", ClampCount(arguments["count"])>> >> ELSE <<>>)
         \o (IF "level" \in DOMAIN arguments
             THEN << <<"level", arguments["level"]>> >> ELSE <<>>)
         \o (IF "category" \in DOMAIN arguments /\ Truthy(arguments["category"])
             THEN << <<"category", arguments["category"]>> >> ELSE <<>>))

GetLogs(i) ==
    /\ pc[i] = "pending"
    /\ calls[i].name = "devdash_get_logs"
    /\ Enter(i)
    /\ LET params == GetLogsParams(calls[i].arguments)
       IN  IF params.kind = "raise" THEN ReturnEarly(i, params)
           ELSE client_get(i, DEVTOOLS_BASE_URL \o "/api/logs", params.value)

\* Mutant: only a missing key counts, an empty string passes.
WindowMissingNoneOnly(window) == window = None

\* `not window`
WindowMissing(window) == ~Truthy(window)

Screenshot(i) ==
    /\ pc[i] = "pending"
    /\ calls[i].name = "devdash_screenshot"
    /\ Enter(i)
    /\ LET window == Get(calls[i].arguments, "window")
       IN  IF WindowMissing(window)
           THEN ReturnEarly(i, Returned(<<TextContent("Error: 'window' parameter is required")>>))
           ELSE client_get(i, DEVTOOLS_BASE_URL \o "/api/screenshot",
                           << <<"window", window>> >>)

\* The names the if/elif chain of call_tool compares against.
BranchNames ==
    {"devdash_get_state", "devdash_get_warnings", "devdash_list_windows",
     "devdash_get_logs", "devdash_screenshot"}

UnknownTool(i) ==
    /\ pc[i] = "pending"
    /\ calls[i].name \notin BranchNames
    /\ Enter(i)
    /\ ReturnEarly(i, Returned(<<TextContent("Unknown tool: " \o calls[i].name)>>))

\* response.raise_for_status(); data = response.json(); return the dump.
JsonResult(r) ==
    IF r.kind = "fault" THEN Raised(r.exc)
    ELSE IF ~is_success(r) THEN Raised(HTTPStatusError(r))
    ELSE LET data == response_json(r)
         IN  IF data.kind = "raise" THEN data
             ELSE Returned(<<TextContent(dumps(data.value, JsonIndent, 0))>>)

\* Mutant: the body put in the block without the base64 encoding.
ScreenshotResultRaw(r) ==
    IF r.kind = "fault" THEN Raised(r.exc)
    ELSE IF r.status_code < 200 \/ r.status_code > 299 THEN Raised(HTTPStatusError(r))
    ELSE Returned(<<ImageContent(DecodeText(r.content), "image/png")>>)

\* response.raise_for_status(); return the body base64-encoded as a PNG image.
ScreenshotResult(r) ==
    IF r.kind = "fault" THEN Raised(r.exc)
    ELSE IF ~is_success(r) THEN Raised(HTTPStatusError(r))
    ELSE Returned(<<ImageContent(b64encode(r.content), "image/png")>>)

\* The awaited GET of a JSON branch completes and the branch runs to its end.
JsonReply(i) ==
    /\ pc[i] = "awaiting"
    /\ locals[Frame(i)].name \in
           {"devdash_get_state", "devdash_get_warnings", "devdash_list_windows",
            "devdash_get_logs"}
    /\ \E r \in BackendReplies :
          /\ reply' = [reply EXCEPT ![i] = r]
          /\ Finish(i, JsonResult(r))
    /\ UNCHANGED <<calls, backend, locals, sent>>

\* The awaited GET of the screenshot branch completes.
ScreenshotReply(i) ==
    /\ pc[i] = "awaiting"
    /\ locals[Frame(i)].name = "devdash_screenshot"
    /\ \E r \in BackendReplies :
          /\ reply' = [reply EXCEPT ![i] = r]
          /\ Finish(i, ScreenshotResult(r))
    /\ UNCHANGED <<calls, backend, locals, sent>>

Start(cs, b) ==
    /\ calls = cs
    /\ backend = b
    /\ pc = [i \in Calls |-> IF IsCall(cs[i]) THEN "pending" ELSE "absent"]
    /\ locals = [f \in Calls |-> [name |-> "", arguments |-> <<>>]]
    /\ sent = <<>>
    /\ reply = [i \in Calls |-> NoReply]
    /\ result = [i \in Calls |-> <<>>]

\* One invocation at a time, over every tool name, argument mapping and reply.
Init ==
    \E inv \in Invocations :
        Start([i \in Calls |-> IF i = 1 THEN inv ELSE NoCall], "any")

\* NumCalls invocations in flight together.
InitConcurrent ==
    \E cs \in [Calls -> ConcurrentInvocations] : Start(cs, "few")

\* The steps of call i.
Step(i) ==
    \/ GetState(i)
    \/ GetWarnings(i)
    \/ ListWindows(i)
    \/ GetLogs(i)
    \/ Screenshot(i)
    \/ UnknownTool(i)
    \/ JsonReply(i)
    \/ ScreenshotReply(i)

Next == \E i \in Calls : Step(i)

Spec == Init /\ [][Next]_vars

SpecConcurrent == InitConcurrent /\ [][Next]_vars

(***************************************************************************)
(* call_tool run alone: the whole handler as one function of the           *)
(* invocation and of what the backend does with its request                *)
(***************************************************************************)

GetRequest(i, url, params) ==
    [call |-> i, method |-> "GET", url |-> url, params |-> QueryParams(params)]

\* The requests call i issues when nothing else runs.
RequestsAlone(i, name, arguments) ==
    CASE name = "devdash_get_state" ->
            <<GetRequest(i, DEVTOOLS_BASE_URL \o "/api/state", <<>>)>>
      [] name = "devdash_get_warnings" ->
            <<GetRequest(i, DEVTOOLS_BASE_URL \o "/api/warnings", <<>>)>>
      [] name = "devdash_list_windows" ->
            <<GetRequest(i, DEVTOOLS_BASE_URL \o "/api/windows", <<>>)>>
      [] name = "devdash_get_logs" ->
            LET params == GetLogsParams(arguments)
            IN  IF params.kind = "raise" THEN <<>>
                ELSE <<GetRequest(i, DEVTOOLS_BASE_URL \o "/api/logs", params.value)>>
      [] name = "devdash_screenshot" ->
            IF WindowMissing(Get(arguments, "window")) THEN <<>>
            ELSE <<GetRequest(i, DEVTOOLS_BASE_URL \o "/api/screenshot",
                              << <<"window", Get(arguments, "window")>> >>)>>
      [] OTHER -> <<>>

\* What call_tool(name, arguments) ends in when the backend answers with r.
ResultAlone(name, arguments, r) ==
    Except(
        CASE name \in {"devdash_get_state", "devdash_get_warnings", "devdash_list_windows"} ->
                JsonResult(r)
          [] name = "devdash_get_logs" ->
                LET params == GetLogsParams(arguments)
                IN  IF params.kind = "raise" THEN params ELSE JsonResult(r)
          [] name = "devdash_screenshot" ->
                IF WindowMissing(Get(arguments, "window"))
                THEN Returned(<<TextContent("Error: 'window' parameter is required")>>)
                ELSE ScreenshotResult(r)
          [] OTHER -> Returned(<<TextContent("Unknown tool: " \o name)>>))

(***************************************************************************)
(* Properties                                                              *)
(***************************************************************************)

Began(i) == pc[i] \in {"awaiting", "returned", "raised"}

\* The requests call i has issued so far.
RequestsOf(i) == SelectSeq(sent, LAMBDA q : q.call = i)

IsJsonTool(name) ==
    name \in {"devdash_get_state", "devdash_get_warnings", "devdash_list_windows",
              "devdash_get_logs"}

Got2xx(i) ==
    reply[i].kind = "response" /\ reply[i].status_code \in 200..299

GotNon2xx(i) ==
    reply[i].kind = "response" /\ reply[i].status_code \notin 200..299

\* The body of call i's reply is a JSON document.
GotJson(i) ==
    /\ Got2xx(i)
    /\ IsAscii(reply[i].content)
    /\ loads(DecodeText(reply[i].content)).ok

\* Call i got what its tool is for: an image body, or a JSON document.
Succeeded(i) ==
    \/ calls[i].name = "devdash_screenshot" /\ Got2xx(i)
    \/ IsJsonTool(calls[i].name) /\ GotJson(i)

\* C1: every invocation of call_tool, whatever the tool name, the arguments
\* and the backend's reply, ends by returning a list of exactly one content
\* block; no exception leaves call_tool, an invocation that has not ended can
\* always take its next step, and every outcome other than success is one
\* Text block.
C1_OneBlockNeverRaises ==
    \A i \in Calls :
        /\ pc[i] # "raised"
        /\ pc[i] \in {"pending", "awaiting"} => ENABLED Step(i)
        /\ pc[i] = "returned" =>
              /\ Len(result[i]) = 1
              /\ ~Succeeded(i) =>
                    /\ result[i][1].type = "text"
                    /\ Len(result[i][1].text) > 0

\* A call whose request timed out has returned its one Text block.
C1_Witness ==
    \E i \in Calls :
        /\ pc[i] = "returned"
        /\ Len(result[i]) = 1
        /\ reply[i].kind = "fault"
        /\ reply[i].exc.cls = "ReadTimeout"
        /\ result[i][1] = TextContent("Error: ")

\* The value of query parameter key of request q, or "" when q has none.
ParamOf(q, key) ==
    IF \E k \in 1..Len(q.params) : q.params[k][1] = key
    THEN q.params[CHOOSE k \in 1..Len(q.params) : q.params[k][1] = key][2]
    ELSE ""

ParamKeys(q) == {q.params[k][1] : k \in 1..Len(q.params)}

IsGetLogsWithoutArguments(i) ==
    /\ IsCall(calls[i])
    /\ calls[i].name = "devdash_get_logs"
    /\ calls[i].arguments = <<>>

\* C2 as stated: a get_logs invocation with an empty argument mapping issues a
\* request to /api/logs whose query parameters are count=100 and level=info,
\* with no category parameter.
C2_DefaultsInRequest ==
    \A i \in Calls :
        (IsGetLogsWithoutArguments(i) /\ Began(i)) =>
            /\ Len(RequestsOf(i)) = 1
            /\ RequestsOf(i)[1].url = DEVTOOLS_BASE_URL \o "/api/logs"
            /\ ParamKeys(RequestsOf(i)[1]) = {"count", "level"}
            /\ ParamOf(RequestsOf(i)[1], "count") = "100"
            /\ ParamOf(RequestsOf(i)[1], "level") = "info"

\* C2 amended: a get_logs invocation issues one request to /api/logs that
\* carries count and level exactly when the argument mapping has them and
\* category exactly when it has a non-empty one; with an empty argument
\* mapping the request has no query parameters at all.
C2_AbsentArgumentsOmitted ==
    \A i \in Calls :
        (/\ IsCall(calls[i])
         /\ calls[i].name = "devdash_get_logs"
         /\ "count" \in DOMAIN calls[i].arguments => IsInt(calls[i].arguments["count"])
         /\ Began(i)) =>
            /\ Len(RequestsOf(i)) = 1
            /\ RequestsOf(i)[1].url = DEVTOOLS_BASE_URL \o "/api/logs"
            /\ ParamKeys(RequestsOf(i)[1]) =
                  {k \in DOMAIN calls[i].arguments \cap {"count", "level", "category"} :
                      k = "category" => calls[i].arguments[k] # [str |-> ""]}
            /\ calls[i].arguments = <<>> => RequestsOf(i)[1].params = <<>>

\* get_logs called with {} is waiting for the answer to its request.
C2_Witness ==
    \E i \in Calls :
        /\ IsGetLogsWithoutArguments(i)
        /\ pc[i] = "awaiting"
        /\ Len(RequestsOf(i)) = 1

HasIntegerCount(i) ==
    /\ IsCall(calls[i])
    /\ calls[i].name = "devdash_get_logs"
    /\ "count" \in DOMAIN calls[i].arguments
    /\ IsInt(calls[i].arguments["count"])

\* The count on the wire, read back as an integer.
CountSent(q) == ScanNumber(ParamOf(q, "count"), 1).val.num

\* C3 as stated: the count sent lies in [minimum, 1000] for a fixed minimum;
\* the least such minimum for a number of log entries is 0.
C3_CountWithinRange ==
    \A i \in Calls :
        (HasIntegerCount(i) /\ Began(i)) =>
            /\ Len(RequestsOf(i)) = 1
            /\ CountSent(RequestsOf(i)[1]) \in 0..MaxLogCount

\* C3 amended: for an integer count the request is always issued and carries
\* min(count, 1000): a count above 1000 is sent as 1000 and every count of
\* 1000 or less, zero and negative counts included, is sent unchanged; there
\* is no lower bound.
C3_CountCappedOnly ==
    \A i \in Calls :
        (HasIntegerCount(i) /\ Began(i)) =>
            LET count == calls[i].arguments["count"].int
            IN  /\ Len(RequestsOf(i)) = 1
                /\ "count" \in ParamKeys(RequestsOf(i)[1])
                /\ CountSent(RequestsOf(i)[1]) <= MaxLogCount
                /\ count > MaxLogCount => CountSent(RequestsOf(i)[1]) = MaxLogCount
                /\ count <= MaxLogCount => CountSent(RequestsOf(i)[1]) = count

\* get_logs with count = 5000 has sent count=1000.
C3_Witness ==
    \E i \in Calls :
        /\ HasIntegerCount(i)
        /\ calls[i].arguments["count"].int = 5000
        /\ Began(i)
        /\ ParamOf(RequestsOf(i)[1], "count") = "1000"

IsScreenshot(i) == IsCall(calls[i]) /\ calls[i].name = "devdash_screenshot"

HasWindow(i) ==
    /\ "window" \in DOMAIN calls[i].arguments
    /\ calls[i].arguments["window"] \notin {[str |-> ""], [int |-> 0]}

\* C4: a screenshot invocation with no window key, or an empty window,
\* returns exactly the Text block "Error: 'window' parameter is required" and
\* issues no request; a request to /api/screenshot goes out only for a call
\* whose window is present and non-empty.
C4_WindowRequired ==
    /\ \A i \in Calls :
          (IsScreenshot(i) /\ ~HasWindow(i)) =>
              /\ RequestsOf(i) = <<>>
              /\ pc[i] \in {"pending", "returned"}
              /\ pc[i] = "returned" =>
                    result[i] = <<TextContent("Error: 'window' parameter is required")>>
    /\ \A k \in 1..Len(sent) :
          sent[k].url = DEVTOOLS_BASE_URL \o "/api/screenshot" =>
              /\ IsScreenshot(sent[k].call)
              /\ HasWindow(sent[k].call)
              /\ sent[k].params =
                    << <<"window", calls[sent[k].call].arguments["window"].str>> >>

\* screenshot called with window = "" has returned.
C4_Witness ==
    \E i \in Calls :
        /\ IsScreenshot(i)
        /\ "window" \in DOMAIN calls[i].arguments
        /\ calls[i].arguments["window"] = [str |-> ""]
        /\ pc[i] = "returned"

\* C5: an invocation whose name is not in the catalog of list_tools returns
\* exactly the Text block "Unknown tool: <name>" and issues no request; an
\* invocation whose name is in the catalog never returns that block; the
\* names of the catalog are distinct.
C5_UnknownToolOnlyOutsideCatalog ==
    /\ \A i \in Calls :
          (IsCall(calls[i]) /\ pc[i] # "pending") =>
              IF calls[i].name \in CatalogNames
              THEN result[i] # <<TextContent("Unknown tool: " \o calls[i].name)>>
              ELSE /\ pc[i] = "returned"
                   /\ result[i] = <<TextContent("Unknown tool: " \o calls[i].name)>>
                   /\ RequestsOf(i) = <<>>
    /\ \A j, k \in 1..Len(list_tools) :
          list_tools[j].name = list_tools[k].name => j = k

\* unknown_tool_xyz has been called and has returned.
C5_Witness ==
    \E i \in Calls :
        /\ IsCall(calls[i])
        /\ calls[i].name = "unknown_tool_xyz"
        /\ pc[i] = "returned"
        /\ result[i] = <<TextContent("Unknown tool: unknown_tool_xyz")>>

\* C6: when the backend answers a request, of any tool, with a non-2xx
\* status, the call returns exactly one Text block that contains the status
\* code and the body text verbatim; no Image block is produced.
C6_StatusAndBodyReported ==
    \A i \in Calls :
        (pc[i] = "returned" /\ GotNon2xx(i)) =>
            /\ Len(result[i]) = 1
            /\ result[i][1].type = "text"
            /\ Contains(result[i][1].text, ToString(reply[i].status_code))
            /\ Contains(result[i][1].text, DecodeText(reply[i].content))
            /\ result[i][1].text =
                  "Error: HTTP " \o ToString(reply[i].status_code) \o " - "
                      \o DecodeText(reply[i].content)

\* list_windows got 404 "not found" and has returned.
C6_Witness ==
    \E i \in Calls :
        /\ pc[i] = "returned"
        /\ calls[i].name = "devdash_list_windows"
        /\ reply[i] = Response(404, Encode("not found"))
        /\ Contains(result[i][1].text, "404")
        /\ Contains(result[i][1].text, "not found")

GotFault(i, classes) ==
    reply[i].kind = "fault" /\ reply[i].exc.cls \in classes

\* The failure classes of a call that reached the backend.
ConnectionRefused(i) == GotFault(i, {"ConnectError"})

BackendError(i) == GotNon2xx(i)

UnexpectedFailure(i) ==
    \/ GotFault(i, {"ReadTimeout", "ConnectTimeout"})
    \/ IsJsonTool(calls[i].name) /\ Got2xx(i) /\ ~GotJson(i)

StartsWith(s, prefix) ==
    Len(s) >= Len(prefix) /\ SubSeq(s, 1, Len(prefix)) = prefix

\* C7: when the backend refuses the connection a JSON tool returns exactly
\* one Text block containing "Cannot connect"; that message is returned for no
\* other failure, the "Error: HTTP <status> - <body>" message is returned for
\* a non-2xx status and for no other failure, and a timeout or a malformed body
\* is reported with neither.
C7_FailureClassesDistinct ==
    \A i \in Calls :
        (pc[i] = "returned" /\ reply[i].kind # "none" /\ ~Succeeded(i)) =>
            /\ Len(result[i]) = 1
            /\ result[i][1].type = "text"
            /\ ConnectionRefused(i) =>
                  /\ Contains(result[i][1].text, "Cannot connect")
                  /\ result[i][1].text = ConnectErrorText
            /\ result[i][1].text = ConnectErrorText => ConnectionRefused(i)
            /\ StartsWith(result[i][1].text, "Error: HTTP ") <=> BackendError(i)
            /\ UnexpectedFailure(i) =>
                  /\ result[i][1].text # ConnectErrorText
                  /\ ~StartsWith(result[i][1].text, "Error: HTTP ")
                  /\ StartsWith(result[i][1].text, "Error: ")

\* get_logs met a refused connection and has returned.
C7_Witness ==
    \E i \in Calls :
        /\ pc[i] = "returned"
        /\ calls[i].name = "devdash_get_logs"
        /\ ConnectionRefused(i)
        /\ Contains(result[i][1].text, "Cannot connect")

\* Call i passes name lookup and argument validation.
Validated(i) ==
    /\ calls[i].name \in CatalogNames
    /\ calls[i].name = "devdash_screenshot" => HasWindow(i)
    /\ (calls[i].name = "devdash_get_logs" /\ "count" \in DOMAIN calls[i].arguments) =>
          IsInt(calls[i].arguments["count"])

\* C8: an invocation that passes name lookup and argument validation issues
\* exactly one HTTP GET and never a second one, whatever the reply; an
\* invocation that is cut short (unknown tool, screenshot without window)
\* issues none.
C8_OneRequestPerCall ==
    \A i \in Calls :
        /\ Len(RequestsOf(i)) <= 1
        /\ \A k \in 1..Len(RequestsOf(i)) : RequestsOf(i)[k].method = "GET"
        /\ pc[i] = "awaiting" => Len(RequestsOf(i)) = 1
        /\ pc[i] = "returned" =>
              Len(RequestsOf(i)) = (IF Validated(i) THEN 1 ELSE 0)
        /\ pc[i] \in {"absent", "pending"} => RequestsOf(i) = <<>>

\* A call whose request timed out has returned, with one request issued.
C8_Witness ==
    \E i \in Calls :
        /\ pc[i] = "returned"
        /\ GotFault(i, {"ReadTimeout"})
        /\ Len(RequestsOf(i)) = 1
        /\ Len(sent) = 1

\* C9: under any interleaving of concurrent invocations, every invocation
\* issues the requests and returns the result it would alone, with the same
\* arguments and the same reply of the backend.
C9_AsIfAlone ==
    \A i \in Calls :
        /\ pc[i] # "raised"
        /\ Began(i) =>
              RequestsOf(i) = RequestsAlone(i, calls[i].name, calls[i].arguments)
        /\ pc[i] = "returned" =>
              result[i] =
                  ResultAlone(calls[i].name, calls[i].arguments, reply[i]).value

\* Two calls overlap: call 2 sent its request first and is still waiting
\* while call 1, of another tool, has sent its own and returned.
C9_Witness ==
    /\ Len(sent) >= 2
    /\ sent[1].call = 2
    /\ sent[2].call = 1
    /\ pc[2] = "awaiting"
    /\ pc[1] = "returned"
    /\ calls[1].name # calls[2].name
    /\ reply[1].kind = "response"

\* C10: the block is an Image exactly when the tool is screenshot, window is
\* non-empty and the backend answered 2xx; the image has MIME type image/png
\* and data that base64-decodes to the body's bytes; a JSON tool that gets a
\* 2xx JSON body returns one Text block that parses back to the body's value;
\* every other block is a Text block.
C10_BlockVariant ==
    \A i \in Calls :
        pc[i] = "returned" =>
            /\ Len(result[i]) = 1
            /\ result[i][1].type \in {"text", "image"}
            /\ result[i][1].type = "image" <=>
                  (IsScreenshot(i) /\ HasWindow(i) /\ Got2xx(i))
            /\ result[i][1].type = "image" =>
                  /\ result[i][1].mimeType = "image/png"
                  /\ b64decode(result[i][1].data) = reply[i].content
            /\ (IsJsonTool(calls[i].name) /\ GotJson(i)) =>
                  /\ result[i][1].type = "text"
                  /\ loads(result[i][1].text).ok
                  /\ loads(result[i][1].text).val
                        = loads(DecodeText(reply[i].content)).val

\* screenshot has returned the four bytes of a 200 reply as a PNG image.
C10_Witness ==
    \E i \in Calls :
        /\ pc[i] = "returned"
        /\ IsScreenshot(i)
        /\ reply[i] = Response(200, <<137, 80, 78, 71>>)
        /\ result[i] = <<ImageContent("iVBORw==", "image/png")>>

====
